---- MODULE Spec2Model ----
(***************************************************************************)
(* Model of the limnological-data server: the filter builder, the value    *)
(* normaliser, the result formatter, the export generator and the          *)
(* abioticoColuna controller that sequences them.                          *)
(*                                                                         *)
(* Text the code inspects character by character (dates, CSV fields, query *)
(* string numbers) is a sequence of one-character strings.  Identifiers    *)
(* that the code only compares or interpolates (object keys, SQL column    *)
(* names) are TLA+ strings.                                                *)
(***************************************************************************)
EXTENDS Integers, Sequences, FiniteSets, TLC

VARIABLES
    fQuery, fColumnMap, fStart, fResult,    \* buildFilter: arguments, result
    legacyParse,                            \* the engine's non-standard Date parse
    dValue, dResult, dAgain,                \* normalizeDate: argument, results
    rRow, rList, rDetail,                   \* formatters: raw row, results
    eData, eOptions, ePromise, eLog,        \* generateExportFile: arguments,
                                            \* returned promise, logger.error
    store,                                  \* ids of the rows of tbabioticocoluna
    pc, req,                                \* the handler running, its request
    dataQuery, countQuery,                  \* the promises of furnasPool.query
    local,                                  \* the handler's page, limit, records
    res, sent                               \* the response, responses written

filterVars == <<fQuery, fColumnMap, fStart, fResult>>
dateVars == <<legacyParse, dValue, dResult, dAgain>>
formatVars == <<rRow, rList, rDetail>>
exportVars == <<eData, eOptions, ePromise, eLog>>
ctlVars == <<store, pc, req, dataQuery, countQuery, local, res, sent>>
vars == <<filterVars, dateVars, formatVars, exportVars, ctlVars>>

(***************************************************************************)
(* JavaScript values.                                                      *)
(***************************************************************************)
Null == [t |-> "null", s |-> <<>>, n |-> 0]
Undefined == [t |-> "undefined", s |-> <<>>, n |-> 0]
Str(chars) == [t |-> "string", s |-> chars, n |-> 0]
Num(k) == [t |-> "number", s |-> <<>>, n |-> k]
\* A number with a fraction: integer part k, fraction digits frac (no
\* trailing zero).
Dec(k, frac) == [t |-> "number", s |-> frac, n |-> k]
\* An object: its own entries <<key, value>> in insertion order.
Obj(entries) == [t |-> "object", o |-> entries]
Keys(obj) == [i \in 1..Len(obj.o) |-> obj.o[i][1]]
HasKey(obj, key) == \E i \in 1..Len(obj.o) : obj.o[i][1] = key
\* obj[key]
Get(obj, key) ==
    IF HasKey(obj, key)
    THEN obj.o[CHOOSE i \in 1..Len(obj.o) : obj.o[i][1] = key][2]
    ELSE Undefined

\* A Date object holds the UTC calendar day of its time value as the number
\* yyyymmdd; the time value NaN (Invalid Date) is -1.
DateOf(y, m, d) == [t |-> "date", s |-> <<>>, n |-> y * 10000 + m * 100 + d]
InvalidDate == [t |-> "date", s |-> <<>>, n |-> -1]
getUTCFullYear(date) == date.n \div 10000
getUTCMonth(date) == ((date.n \div 100) % 100) - 1
getUTCDate(date) == date.n % 100

\* What a call ends with: a returned value or a thrown error.
Return(v) == [kind |-> "return", v |-> v, error |-> ""]
Throw(msg) == [kind |-> "throw", v |-> Undefined, error |-> msg]
NotCalled == [kind |-> "none", v |-> Undefined, error |-> ""]

\* !value
IsFalsy(v) ==
    \/ v.t \in {"null", "undefined"}
    \/ v.t = "string" /\ v.s = <<>>
    \/ v.t = "number" /\ v.n = 0

\* value == null  (loose equality: null or undefined)
IsNullish(v) == v.t \in {"null", "undefined"}

\* value === ''
IsEmptyString(v) == v.t = "string" /\ v.s = <<>>

(***************************************************************************)
(* Bounds of the filter-builder inputs.                                    *)
(***************************************************************************)
MaxKeys == 3
MaxStart == 3
\* Bound of the export inputs: records handed to generateExportFile.
MaxRecords == 2
\* Bounds of the controller: rows in the store, filter entries of a request.
NumRows == 4
MaxFilters == 2

(***************************************************************************)
(* FilterService.buildFilter                                               *)
(***************************************************************************)
\* The allow-list of the abioticoColuna controller: URL key -> column.
abioticoColumnMap == [idcampanha |-> "a.idcampanha", idsitio |-> "a.idsitio"]

\* A column map is an object literal, so a property read that misses the own
\* entries falls through to Object.prototype; these are the texts a template
\* literal renders for what it finds there.
ObjectPrototype ==
    [constructor |-> "function Object() { [native code] }",
     toString |-> "function toString() { [native code] }"]

\* columnMap[key]: "" stands for undefined (falsy, never interpolated).
GetProperty(columnMap, key) ==
    IF key \in DOMAIN columnMap THEN columnMap[key]
    ELSE IF key \in DOMAIN ObjectPrototype THEN ObjectPrototype[key]
    ELSE ""

\* columnMap[key] && query[key] != null && query[key] !== ''
Honored(columnMap, key, value) ==
    /\ GetProperty(columnMap, key) # ""
    /\ ~IsNullish(value)
    /\ ~IsEmptyString(value)

\* The loop of buildFilter over the entries of query, in key order:
\* acc carries whereClauses, params and paramIndex.
RECURSIVE FilterLoop(_, _, _)
FilterLoop(query, columnMap, acc) ==
    IF query = <<>> THEN acc
    ELSE LET key == Head(query)[1]
             value == Head(query)[2]
             next ==
                 IF Honored(columnMap, key, value)
                 THEN [whereClauses |->
                           Append(acc.whereClauses,
                                  [column |-> GetProperty(columnMap, key),
                                   index |-> acc.paramIndex]),
                       params |-> Append(acc.params, value),
                       paramIndex |-> acc.paramIndex + 1]
                 ELSE acc
         IN FilterLoop(Tail(query), columnMap, next)

\* whereClauses.join(' AND ') with each fragment rendered `${column} = $${index}`
RECURSIVE JoinAnd(_)
JoinAnd(clauses) ==
    IF clauses = <<>> THEN ""
    ELSE LET c == Head(clauses)
             text == c.column \o " = $" \o ToString(c.index)
         IN IF Tail(clauses) = <<>> THEN text
            ELSE text \o " AND " \o JoinAnd(Tail(clauses))

\* buildFilter with the placeholder counter handed back unadvanced.
buildFilter_StaleNextIndex(query, columnMap, startIndex) ==
    LET acc == FilterLoop(query, columnMap,
                          [whereClauses |-> <<>>, params |-> <<>>,
                           paramIndex |-> startIndex])
    IN [whereClause |->
            IF Len(acc.whereClauses) = 0 THEN ""
            ELSE "WHERE " \o JoinAnd(acc.whereClauses),
        whereClauses |-> acc.whereClauses,
        params |-> acc.params,
        nextIndex |-> startIndex]

buildFilter(query, columnMap, startIndex) ==
    LET acc == FilterLoop(query, columnMap,
                          [whereClauses |-> <<>>, params |-> <<>>,
                           paramIndex |-> startIndex])
    IN IF Len(acc.whereClauses) = 0
       THEN [whereClause |-> "", whereClauses |-> <<>>, params |-> <<>>,
             nextIndex |-> startIndex]
       ELSE [whereClause |-> "WHERE " \o JoinAnd(acc.whereClauses),
             whereClauses |-> acc.whereClauses,
             params |-> acc.params,
             nextIndex |-> acc.paramIndex]

(***************************************************************************)
(* DataFormatterService: buildISODate, normalizeDate                       *)
(***************************************************************************)
DigitChars == <<"0", "1", "2", "3", "4", "5", "6", "7", "8", "9">>
IsDigit(c) == \E i \in 1..10 : DigitChars[i] = c
DigitValue(c) == (CHOOSE i \in 1..10 : DigitChars[i] = c) - 1
AllDigits(chars) == \A i \in 1..Len(chars) : IsDigit(chars[i])

\* Number(text) of a run of decimal digits.
RECURSIVE ToNumber(_)
ToNumber(chars) ==
    IF chars = <<>> THEN 0
    ELSE ToNumber(SubSeq(chars, 1, Len(chars) - 1)) * 10
             + DigitValue(chars[Len(chars)])

\* The decimal digits of k >= 0, left-padded with zeros to width w.
RECURSIVE PadDigits(_, _)
PadDigits(k, w) ==
    IF k < 10 /\ w <= 1 THEN <<DigitChars[k + 1]>>
    ELSE Append(PadDigits(k \div 10, w - 1), DigitChars[(k % 10) + 1])

IsLeapYear(y) == (y % 4 = 0 /\ y % 100 # 0) \/ y % 400 = 0
DaysInMonth(y, m) ==
    IF m = 2 THEN (IF IsLeapYear(y) THEN 29 ELSE 28)
    ELSE IF m \in {4, 6, 9, 11} THEN 30 ELSE 31

\* new Date(Date.UTC(y, m - 1, d)) for 1 <= m <= 12, 1 <= d <= 31: a day past
\* the end of the month rolls over into the next month.
DateUTC(y, m, d) ==
    IF d <= DaysInMonth(y, m) THEN DateOf(y, m, d)
    ELSE IF m = 12 THEN DateOf(y + 1, 1, d - DaysInMonth(y, m))
    ELSE DateOf(y, m + 1, d - DaysInMonth(y, m))

\* date.toISOString().slice(0, 10), years 0..9999
toISODay(date) ==
    Str(PadDigits(getUTCFullYear(date), 4) \o <<"-">>
        \o PadDigits(getUTCMonth(date) + 1, 2) \o <<"-">>
        \o PadDigits(getUTCDate(date), 2))

buildISODate(y, m, d) ==
    IF m < 1 \/ m > 12 \/ d < 1 \/ d > 31 \/ y < 1900 \/ y > 3000 THEN Null
    ELSE LET date == DateUTC(y, m, d)
         IN IF /\ getUTCFullYear(date) = y
               /\ getUTCMonth(date) = m - 1
               /\ getUTCDate(date) = d
            THEN toISODay(date)
            ELSE Null

IsSpace(c) == c \in {" ", "\t", "\n"}

\* value.trim()
RECURSIVE trim(_)
trim(chars) ==
    IF chars = <<>> THEN <<>>
    ELSE IF IsSpace(Head(chars)) THEN trim(Tail(chars))
    ELSE IF IsSpace(chars[Len(chars)])
         THEN trim(SubSeq(chars, 1, Len(chars) - 1))
    ELSE chars

\* /^(\d{4})-(\d{2})-(\d{2})/ : the three groups, or <<>> for no match.
matchISO(chars) ==
    IF /\ Len(chars) >= 10
       /\ AllDigits(SubSeq(chars, 1, 4)) /\ chars[5] = "-"
       /\ AllDigits(SubSeq(chars, 6, 7)) /\ chars[8] = "-"
       /\ AllDigits(SubSeq(chars, 9, 10))
    THEN <<SubSeq(chars, 1, 4), SubSeq(chars, 6, 7), SubSeq(chars, 9, 10)>>
    ELSE <<>>

\* /^(\d{1,2})SEP(\d{1,2})SEP(\d{4})$/ : the three groups, or <<>>.
matchShort(chars, sep) ==
    LET fits == {ab \in (1..2) \X (1..2) :
                    /\ Len(chars) = ab[1] + ab[2] + 6
                    /\ AllDigits(SubSeq(chars, 1, ab[1]))
                    /\ chars[ab[1] + 1] = sep
                    /\ AllDigits(SubSeq(chars, ab[1] + 2, ab[1] + ab[2] + 1))
                    /\ chars[ab[1] + ab[2] + 2] = sep
                    /\ AllDigits(SubSeq(chars, ab[1] + ab[2] + 3, Len(chars)))}
    IN IF fits = {} THEN <<>>
       ELSE LET ab == CHOOSE x \in fits : TRUE
            IN <<SubSeq(chars, 1, ab[1]),
                 SubSeq(chars, ab[1] + 2, ab[1] + ab[2] + 1),
                 SubSeq(chars, ab[1] + ab[2] + 3, Len(chars))>>

\* new Date(text) for a text that is not YYYY-MM-DD...: the year-only and
\* year-month forms are fixed by the language; for any other text the result
\* is the engine's own (legacyParse).
DateParse(chars) ==
    IF Len(chars) = 4 /\ AllDigits(chars) THEN DateOf(ToNumber(chars), 1, 1)
    ELSE IF /\ Len(chars) = 7 /\ AllDigits(SubSeq(chars, 1, 4))
            /\ chars[5] = "-" /\ AllDigits(SubSeq(chars, 6, 7))
         THEN LET m == ToNumber(SubSeq(chars, 6, 7))
              IN IF m \in 1..12
                 THEN DateOf(ToNumber(SubSeq(chars, 1, 4)), m, 1)
                 ELSE InvalidDate
    ELSE legacyParse

normalizeDate(value) ==
    IF IsFalsy(value) THEN Return(Null)
    ELSE IF value.t = "date"
    THEN IF value.n = -1 THEN Return(Null) ELSE Return(toISODay(value))
    ELSE IF value.t # "string"
    THEN Throw("TypeError: value.trim is not a function")
    ELSE LET trimmed == trim(value.s)
             iso == matchISO(trimmed)
             dmy == matchShort(trimmed, "/")
             mdy == matchShort(trimmed, "-")
         IN IF trimmed = <<>> THEN Return(Null)
            ELSE IF iso # <<>>
            THEN Return(buildISODate(ToNumber(iso[1]), ToNumber(iso[2]),
                                     ToNumber(iso[3])))
            ELSE IF dmy # <<>>
            THEN Return(buildISODate(ToNumber(dmy[3]), ToNumber(dmy[2]),
                                     ToNumber(dmy[1])))
            ELSE IF mdy # <<>>
            THEN Return(buildISODate(ToNumber(mdy[3]), ToNumber(mdy[1]),
                                     ToNumber(mdy[2])))
            ELSE LET date == DateParse(trimmed)
                 IN IF date.n # -1 THEN Return(toISODay(date))
                    ELSE Return(Null)

(***************************************************************************)
(* DataFormatterService: parseLocaleNumber                                 *)
(***************************************************************************)
Contains(chars, c) == \E i \in 1..Len(chars) : chars[i] = c

\* text.replace(/\./g, "")
RemoveDots(chars) == SelectSeq(chars, LAMBDA c : c # ".")

\* text.replace(",", "."): the first comma only
ReplaceFirstComma(chars) ==
    IF ~Contains(chars, ",") THEN chars
    ELSE LET i == CHOOSE k \in 1..Len(chars) :
                      chars[k] = "," /\ \A j \in 1..(k - 1) : chars[j] # ","
         IN [k \in 1..Len(chars) |-> IF k = i THEN "." ELSE chars[k]]

RECURSIVE StripTrailingZeros(_)
StripTrailingZeros(chars) ==
    IF chars # <<>> /\ chars[Len(chars)] = "0"
    THEN StripTrailingZeros(SubSeq(chars, 1, Len(chars) - 1))
    ELSE chars

\* Number(text) of an unsigned decimal text without exponent; Null stands
\* for NaN.
ParseDecimal(chars) ==
    IF chars # <<>> /\ AllDigits(chars) THEN Num(ToNumber(chars))
    ELSE IF Len(SelectSeq(chars, LAMBDA c : c = ".")) = 1
    THEN LET dot == CHOOSE k \in 1..Len(chars) : chars[k] = "."
             whole == SubSeq(chars, 1, dot - 1)
             frac == SubSeq(chars, dot + 1, Len(chars))
         IN IF AllDigits(whole) /\ AllDigits(frac) /\ Len(chars) > 1
            THEN Dec(ToNumber(whole), StripTrailingZeros(frac))
            ELSE Null
    ELSE Null

parseLocaleNumber(value) ==
    IF IsNullish(value) THEN Null
    ELSE IF value.t = "number" THEN value
    ELSE LET trimmed == trim(value.s)
         IN IF trimmed = <<>> THEN Null
            ELSE IF Contains(trimmed, ",")
            THEN ParseDecimal(ReplaceFirstComma(RemoveDots(trimmed)))
            ELSE ParseDecimal(trimmed)

(***************************************************************************)
(* DataFormatterService: formatListOutput, formatDetailOutput              *)
(***************************************************************************)
\* The scalar entries both output shapes start with; date is the outcome of
\* normalizeDate(row.datamedida).
MeasureEntries(row, date) ==
    <<<<"idabioticocoluna", row.idabioticocoluna>>,
      <<"datamedida", date>>,
      <<"horamedida", row.horamedida>>,
      <<"profundidade", parseLocaleNumber(row.profundidade)>>,
      <<"dic", parseLocaleNumber(row.dic)>>,
      <<"nt", parseLocaleNumber(row.nt)>>,
      <<"pt", parseLocaleNumber(row.pt)>>,
      <<"delta13c", parseLocaleNumber(row.delta13c)>>,
      <<"delta15n", parseLocaleNumber(row.delta15n)>>>>

formatListOutput(row) ==
    IF row = Null THEN Return(Null)
    ELSE LET date == normalizeDate(row.datamedida)
         IN IF date.kind = "throw" THEN date
            ELSE Return(Obj(MeasureEntries(row, date.v) \o
                     <<<<"sitio", IF ~IsFalsy(row.idsitio)
                                 THEN row.sitio_nome ELSE Undefined>>,
                       <<"campanha", IF ~IsFalsy(row.idcampanha)
                                    THEN row.nrocampanha ELSE Undefined>>>>))

formatDetailOutput(row) ==
    IF row = Null THEN Return(Null)
    ELSE LET date == normalizeDate(row.datamedida)
             inicio == normalizeDate(row.campanha_datainicio)
             fim == normalizeDate(row.campanha_datafim)
             sitio ==
                 Obj(<<<<"idsitio", row.idsitio>>,
                       <<"nome", row.sitio_nome>>,
                       <<"lat", parseLocaleNumber(row.sitio_lat)>>,
                       <<"lng", parseLocaleNumber(row.sitio_lng)>>,
                       <<"descricao", row.sitio_descricao>>>>)
             reservatorio ==
                 Obj(<<<<"idreservatorio", row.idreservatorio>>,
                       <<"nome", row.reservatorio_nome>>>>)
             campanha ==
                 Obj(<<<<"idcampanha", row.idcampanha>>,
                       <<"nroCampanha", row.nrocampanha>>,
                       <<"dataInicio", inicio.v>>,
                       <<"dataFim", fim.v>>,
                       <<"reservatorio", IF ~IsFalsy(row.idreservatorio)
                                        THEN reservatorio ELSE Undefined>>>>)
         IN IF date.kind = "throw" THEN date
            ELSE IF ~IsFalsy(row.idcampanha) /\ inicio.kind = "throw"
            THEN inicio
            ELSE IF ~IsFalsy(row.idcampanha) /\ fim.kind = "throw" THEN fim
            ELSE Return(Obj(MeasureEntries(row, date.v) \o
                     <<<<"sitio", IF ~IsFalsy(row.idsitio)
                                 THEN sitio ELSE Undefined>>,
                       <<"campanha", IF ~IsFalsy(row.idcampanha)
                                    THEN campanha ELSE Undefined>>>>))

(***************************************************************************)
(* ExportService                                                           *)
(*                                                                         *)
(* A text is a sequence of characters; an object key, which holds no       *)
(* delimiter, quote or line break, is carried in a text as one element.    *)
(* "U+20AC" stands for the euro sign, a character outside ISO-8859-1.      *)
(***************************************************************************)
Latin1(c) == c # "U+20AC"

\* String(value) for the values a flattened record holds.
String(value) ==
    CASE value.t = "string" -> value.s
      [] value.t = "number" ->
             PadDigits(value.n, 1)
                 \o (IF value.s = <<>> THEN <<>> ELSE <<".">> \o value.s)
      [] value.t = "null" -> <<"null">>
      [] value.t = "undefined" -> <<"undefined">>
      [] OTHER -> <<"[object Object]">>

\* parts.join(sep)
RECURSIVE Join(_, _)
Join(parts, sep) ==
    IF parts = <<>> THEN <<>>
    ELSE IF Len(parts) = 1 THEN parts[1]
    ELSE parts[1] \o <<sep>> \o Join(Tail(parts), sep)

\* str.replace(/"/g, '""')
RECURSIVE DoubleQuotes(_)
DoubleQuotes(chars) ==
    IF chars = <<>> THEN <<>>
    ELSE (IF Head(chars) = "\"" THEN <<"\"", "\"">> ELSE <<Head(chars)>>)
             \o DoubleQuotes(Tail(chars))

\* escapeCsvValue that wraps in quotes without doubling the quotes inside.
escapeCsvValue_NoDoubling(value, delimiter) ==
    IF IsNullish(value) THEN <<>>
    ELSE LET str == String(value)
         IN IF Contains(str, delimiter) \/ Contains(str, "\"")
                   \/ Contains(str, "\n")
            THEN <<"\"">> \o str \o <<"\"">>
            ELSE str

escapeCsvValue(value, delimiter) ==
    IF IsNullish(value) THEN <<>>
    ELSE LET str == String(value)
         IN IF Contains(str, delimiter) \/ Contains(str, "\"")
                   \/ Contains(str, "\n")
            THEN <<"\"">> \o DoubleQuotes(str) \o <<"\"">>
            ELSE str

\* A Buffer: the characters its bytes decode to under its encoding.  UTF-8
\* keeps every character; iconv's ISO-8859-1 encoder writes "?" for a
\* character the encoding does not have.
encodeBuffer(content, encoding) ==
    IF encoding = "iso-8859-1"
    THEN [t |-> "buffer", format |-> "csv", encoding |-> "iso-8859-1",
          chars |-> [i \in 1..Len(content) |->
                        IF Latin1(content[i]) THEN content[i] ELSE "?"],
          sheet |-> <<>>, bold |-> FALSE]
    ELSE [t |-> "buffer", format |-> "csv", encoding |-> "utf-8",
          chars |-> content, sheet |-> <<>>, bold |-> FALSE]

\* Object.keys(x) and x[key] throw a TypeError on null and undefined.
TypeErrorNullish == "TypeError: Cannot convert undefined or null to object"

generateCSV(data, options) ==
    IF Len(data) = 0
    THEN Return(encodeBuffer(IF options.includeHeaders
                             THEN <<"Nenhum dado encontrado">> ELSE <<>>,
                             options.encoding))
    ELSE IF \/ data[1] = Null
            \/ Keys(data[1]) # <<>> /\ \E i \in 1..Len(data) : data[i] = Null
    THEN Throw(TypeErrorNullish)
    ELSE LET keys == Keys(data[1])
             header == IF options.includeHeaders
                       THEN <<Join([j \in 1..Len(keys) |-> <<keys[j]>>],
                                   options.delimiter)>>
                       ELSE <<>>
             \* const values = keys.map(...), const csvString = ...: each
             \* is computed once, as the one element of a set.
             line(row) ==
                 CHOOSE text \in
                     {Join(values, options.delimiter) :
                         values \in {[j \in 1..Len(keys) |->
                                        escapeCsvValue(Get(row, keys[j]),
                                                       options.delimiter)]}} :
                     TRUE
             csvRows == header \o [i \in 1..Len(data) |-> line(data[i])]
         IN CHOOSE buffer \in
                {Return(encodeBuffer(Join(rows, "\n"), options.encoding)) :
                    rows \in {csvRows}} : TRUE

\* The worksheet generateXLSX writes: its rows of cell values and whether
\* the first row is the bold header.  Column widths are left out.
generateXLSX(data, includeHeaders) ==
    IF Len(data) = 0
    THEN Return([t |-> "buffer", format |-> "xlsx", encoding |-> "",
                 chars |-> <<>>,
                 sheet |-> IF includeHeaders
                           THEN <<<<Str(<<"Nenhum dado encontrado para exportar.">>)>>>>
                           ELSE <<>>,
                 bold |-> FALSE])
    ELSE IF \/ data[1] = Null
            \/ Keys(data[1]) # <<>> /\ \E i \in 1..Len(data) : data[i] = Null
    THEN Throw(TypeErrorNullish)
    ELSE LET keys == Keys(data[1])
             header == IF includeHeaders
                       THEN <<[j \in 1..Len(keys) |-> Str(<<keys[j]>>)]>>
                       ELSE <<>>
             values(row) == [j \in 1..Len(keys) |-> Get(row, keys[j])]
         IN Return([t |-> "buffer", format |-> "xlsx", encoding |-> "",
                    chars |-> <<>>,
                    sheet |-> header \o [i \in 1..Len(data) |-> values(data[i])],
                    bold |-> includeHeaders])

\* x || fallback for a text x ("" stands for an absent option)
OrDefault(x, fallback) == IF x = "" THEN fallback ELSE x

GenericExportError == "Falha ao gerar o arquivo."

\* generateExportFile: how the promise it returns settles, and what it
\* passed to logger.error.  The two generators are async functions, so an
\* error raised in them rejects the promise they return; the try block
\* returns that promise without awaiting it, so its catch sees only what is
\* thrown before the generator is called (reading options.format).
generateExportFile(data, options) ==
    IF options = Undefined
    THEN [promise |-> Throw(GenericExportError),
          logged |-> <<"TypeError: Cannot read properties of undefined">>]
    ELSE IF options.format = "xlsx"
    THEN [promise |-> generateXLSX(data, options.includeHeaders),
          logged |-> <<>>]
    ELSE [promise |->
              generateCSV(data,
                  [includeHeaders |-> options.includeHeaders,
                   delimiter |-> OrDefault(options.delimiter, ";"),
                   encoding |-> OrDefault(options.encoding, "utf-8")]),
          logged |-> <<>>]

(***************************************************************************)
(* The store: tbabioticocoluna joined to its campaign and site, and what   *)
(* furnasPool.query makes of a query built by the controller.              *)
(***************************************************************************)
\* A raw row of the joined query.  The columns of a LEFT JOIN that found no
\* partner are null.
RawRow(id, date, depth, idsitio, nome, idcampanha, idreservatorio) ==
    [idabioticocoluna |-> Num(id),
     datamedida |-> date,
     horamedida |-> Str(<<"1", "0", ":", "3", "0", ":", "0", "0">>),
     profundidade |-> depth,
     dic |-> Null, nt |-> Null, pt |-> Null,
     delta13c |-> Null, delta15n |-> Null,
     idsitio |-> idsitio,
     sitio_nome |-> IF idsitio = Null THEN Null ELSE nome,
     sitio_lat |-> IF idsitio = Null THEN Null
                   ELSE Str(<<"2", "0", ",", "5">>),
     sitio_lng |-> Null,
     sitio_descricao |-> Null,
     idcampanha |-> idcampanha,
     nrocampanha |-> IF idcampanha = Null THEN Null ELSE Num(1),
     campanha_datainicio |->
         IF idcampanha = Null THEN Null ELSE DateOf(2023, 1, 1),
     campanha_datafim |-> Null,
     idreservatorio |-> IF idcampanha = Null THEN Null ELSE idreservatorio,
     reservatorio_nome |->
         IF idcampanha = Null \/ idreservatorio = Null THEN Null
         ELSE Str(<<"F">>)]

\* Row i of the fact table: two of three rows belong to campaign 5, dates
\* repeat every third row (rows with the same date and time tie in the
\* ORDER BY), every fourth row has no site.
StoreRow(i) ==
    RawRow(i, DateOf(2023, 1, 1 + (i % 3)), Num(i),
           IF i % 4 = 0 THEN Null ELSE Num(1 + (i % 2)), Str(<<"a">>),
           IF i % 3 = 0 THEN Num(7) ELSE Num(5), Num(2))

BaseQuery == "SELECT ... FROM tbabioticocoluna AS a LEFT JOIN tbcampanha AS b ON a.idcampanha = b.idcampanha LEFT JOIN tbsitio AS c ON a.idsitio = c.idsitio"
CountQuery == "SELECT COUNT(a.idabioticocoluna) FROM tbabioticocoluna AS a LEFT JOIN tbcampanha AS b ON a.idcampanha = b.idcampanha LEFT JOIN tbsitio AS c ON a.idsitio = c.idsitio"

\* The integer columns a predicate of the controller can name.
FilterColumns == {"a.idcampanha", "a.idsitio", "a.idabioticocoluna"}
ColumnValue(row, column) ==
    IF column = "a.idcampanha" THEN row.idcampanha
    ELSE IF column = "a.idsitio" THEN row.idsitio
    ELSE row.idabioticocoluna

\* A bound value the store can read as an integer.
IsInteger(v) ==
    \/ v.t = "number" /\ v.s = <<>>
    \/ v.t = "string" /\ trim(v.s) # <<>> /\ AllDigits(trim(v.s))
IntegerOf(v) == IF v.t = "number" THEN v.n ELSE ToNumber(trim(v.s))

\* The store refuses a statement that names something that is no column,
\* uses a placeholder without a bound value, compares an integer column
\* with a value that is no integer, or has a negative LIMIT or OFFSET.
Refused(q, values) ==
    \/ \E i \in 1..Len(q.where) :
           \/ q.where[i].column \notin FilterColumns
           \/ q.where[i].index \notin 1..Len(values)
           \/ ~IsInteger(values[q.where[i].index])
    \/ q.limitIndex # 0 /\
           \/ q.limitIndex \notin 1..Len(values)
           \/ q.offsetIndex \notin 1..Len(values)
           \/ ~IsInteger(values[q.limitIndex])
           \/ ~IsInteger(values[q.offsetIndex])
           \/ values[q.limitIndex].n < 0
           \/ values[q.offsetIndex].n < 0

\* The ids of the stored rows the WHERE predicate keeps (NULL equals nothing).
Matching(rows, q, values) ==
    {i \in rows :
        \A k \in 1..Len(q.where) :
            LET v == ColumnValue(StoreRow(i), q.where[k].column)
            IN v # Null /\ v.n = IntegerOf(values[q.where[k].index])}

\* ORDER BY a.datamedida DESC, a.horamedida DESC: every order of the ids
\* that puts later dates first; rows that tie may come in any order.
RECURSIVE DateDescending(_)
DateDescending(ids) ==
    IF ids = {} THEN {<<>>}
    ELSE LET latest == {i \in ids : \A j \in ids :
                           StoreRow(j).datamedida.n <= StoreRow(i).datamedida.n}
         IN UNION {{<<i>> \o rest : rest \in DateDescending(ids \ {i})} :
                      i \in latest}

\* seq.slice(from - 1, from - 1 + count)
Slice(seq, from, count) ==
    SubSeq(seq, from, IF from + count - 1 > Len(seq) THEN Len(seq)
                      ELSE from + count - 1)

\* The ways the store can answer a statement.
QueryOutcomes(rows, q, values) ==
    IF Refused(q, values) THEN {Throw("error: statement refused")}
    ELSE IF q.count
    THEN {Return(<<[count |->
              Str(PadDigits(Cardinality(Matching(rows, q, values)), 1))]>>)}
    ELSE {Return([k \in 1..Len(page) |-> StoreRow(page[k])]) :
             page \in {IF q.limitIndex = 0 THEN order
                       ELSE Slice(order, values[q.offsetIndex].n + 1,
                                  values[q.limitIndex].n) :
                           order \in DateDescending(Matching(rows, q, values))}}

(***************************************************************************)
(* abioticoColuna.controller: buildAbioticoQuery, getAll, exportData       *)
(***************************************************************************)
PAGE_SIZE == 10

\* parseInt(text): an optional sign and the leading digits; nan when there
\* are none (also for an absent parameter).
RECURSIVE LeadingDigits(_)
LeadingDigits(chars) ==
    IF chars = <<>> \/ ~IsDigit(Head(chars)) THEN <<>>
    ELSE <<Head(chars)>> \o LeadingDigits(Tail(chars))

parseInt(value) ==
    IF value.t # "string" THEN [nan |-> TRUE, n |-> 0]
    ELSE LET t == trim(value.s)
             negative == t # <<>> /\ Head(t) = "-"
             digits == LeadingDigits(IF t # <<>> /\ Head(t) \in {"-", "+"}
                                     THEN Tail(t) ELSE t)
         IN IF digits = <<>> THEN [nan |-> TRUE, n |-> 0]
            ELSE [nan |-> FALSE,
                  n |-> IF negative THEN 0 - ToNumber(digits)
                        ELSE ToNumber(digits)]

\* parseInt(value) || fallback
parseIntOr(value, fallback) ==
    LET parsed == parseInt(value)
    IN IF parsed.nan \/ parsed.n = 0 THEN fallback ELSE parsed.n

\* buildAbioticoQuery whose count statement leaves the predicate out.
buildAbioticoQuery_CountUnfiltered(filters) ==
    LET f == buildFilter(filters, abioticoColumnMap, 1)
    IN [mainQuery |->
            [text |-> BaseQuery \o " " \o f.whereClause
                          \o " ORDER BY a.datamedida DESC, a.horamedida DESC",
             where |-> f.whereClauses, count |-> FALSE,
             limitIndex |-> 0, offsetIndex |-> 0],
        countText |->
            [text |-> CountQuery,
             where |-> <<>>, count |-> TRUE,
             limitIndex |-> 0, offsetIndex |-> 0],
        values |-> f.params,
        paramIndex |-> f.nextIndex]

\* A statement is its text together with what the text says: the predicate
\* fragments, whether it counts, and the placeholders of LIMIT and OFFSET
\* (0 when it has none).
buildAbioticoQuery(filters) ==
    LET f == buildFilter(filters, abioticoColumnMap, 1)
    IN [mainQuery |->
            [text |-> BaseQuery \o " " \o f.whereClause
                          \o " ORDER BY a.datamedida DESC, a.horamedida DESC",
             where |-> f.whereClauses, count |-> FALSE,
             limitIndex |-> 0, offsetIndex |-> 0],
        countText |->
            [text |-> CountQuery \o " " \o f.whereClause,
             where |-> f.whereClauses, count |-> TRUE,
             limitIndex |-> 0, offsetIndex |-> 0],
        values |-> f.params,
        paramIndex |-> f.nextIndex]

\* The pagination suffix with the two placeholders exchanged.
WithLimitOffset_Swapped(q, paramIndex) ==
    [q EXCEPT !.text = q.text \o " LIMIT $" \o ToString(paramIndex + 1)
                          \o " OFFSET $" \o ToString(paramIndex),
              !.limitIndex = paramIndex + 1,
              !.offsetIndex = paramIndex]

\* `${query} LIMIT $${paramIndex} OFFSET $${paramIndex + 1}`
WithLimitOffset(q, paramIndex) ==
    [q EXCEPT !.text = q.text \o " LIMIT $" \o ToString(paramIndex)
                          \o " OFFSET $" \o ToString(paramIndex + 1),
              !.limitIndex = paramIndex,
              !.offsetIndex = paramIndex + 1]

\* A promise of furnasPool.query.
NoQuery == [state |-> "none", query |-> <<>>, values |-> <<>>,
            result |-> NotCalled]
Pending(q, values) ==
    [state |-> "pending", query |-> q, values |-> values, result |-> NotCalled]

\* rows.map(DataFormatterService.formatListOutput): the records, or the
\* first error thrown.
FormatAll(rows) ==
    LET outs == [k \in 1..Len(rows) |-> formatListOutput(rows[k])]
    IN IF \E k \in 1..Len(outs) : outs[k].kind = "throw"
       THEN outs[CHOOSE k \in 1..Len(outs) :
                    /\ outs[k].kind = "throw"
                    /\ \A j \in 1..(k - 1) : outs[j].kind # "throw"]
       ELSE Return([k \in 1..Len(outs) |-> outs[k].v])

\* Math.ceil(total / limit) for limit > 0
CeilDiv(total, limit) == (total + limit - 1) \div limit

NoResponse == [status |-> 0]
NoLocal == [page |-> 0, limit |-> 0, offset |-> 0, records |-> <<>>]

\* The body of a 500 with what the failed handler had got from the store.
ErrorResponse_WithPartialData(message) ==
    [status |-> 500, success |-> FALSE, error |-> message,
     data |-> IF dataQuery.state = "fulfilled" THEN dataQuery.result.v
              ELSE <<>>]

\* res.status(500).json({success: false, error})
ErrorResponse(message) ==
    [status |-> 500, success |-> FALSE, error |-> message]

\* (currentPage - 1) * currentLimit taken one page too far.
ExportPage_NextPage(page, limit) ==
    LET currentPage == IF page = 0 THEN 1 ELSE page
        currentLimit == IF limit = 0 THEN PAGE_SIZE ELSE limit
    IN [limit |-> currentLimit, offset |-> currentPage * currentLimit]

\* exportData, range 'page': page || 1, limit || PAGE_SIZE and the offset
\* (0 stands for an absent page or limit).
ExportPage(page, limit) ==
    LET currentPage == IF page = 0 THEN 1 ELSE page
        currentLimit == IF limit = 0 THEN PAGE_SIZE ELSE limit
    IN [limit |-> currentLimit, offset |-> (currentPage - 1) * currentLimit]

\* Number(text): surrounding whitespace dropped, the empty text 0, an
\* optional minus sign and a decimal numeral; Null stands for NaN.
Number(chars) ==
    LET t == trim(chars)
    IN IF t = <<>> THEN Num(0)
       ELSE IF Head(t) = "-"
       THEN LET u == ParseDecimal(Tail(t))
            IN IF u = Null THEN Null ELSE [u EXCEPT !.n = 0 - u.n]
       ELSE ParseDecimal(t)

\* The detail statement of getById: its text and what the text says.
DetailQuery ==
    [text |-> "SELECT a.*, ... FROM tbabioticocoluna AS a LEFT JOIN tbcampanha AS b ON a.idcampanha = b.idcampanha LEFT JOIN tbsitio AS c ON a.idsitio = c.idsitio LEFT JOIN tbreservatorio AS d ON b.idreservatorio = d.idreservatorio WHERE a.idabioticocoluna = $1",
     where |-> <<[column |-> "a.idabioticocoluna", index |-> 1]>>,
     count |-> FALSE, limitIndex |-> 0, offsetIndex |-> 0]

\* res.status(400).json({success: false, error: `ID ${segment} inválido.`})
InvalidIdResponse(segment) ==
    [status |-> 400, success |-> FALSE,
     error |-> <<"ID ">> \o segment \o <<" inválido.">>]

\* res.status(404).json({success: false, error})
NotFoundResponse ==
    [status |-> 404, success |-> FALSE,
     error |-> "Registro abiótico em coluna não encontrado."]

(***************************************************************************)
(* SpecFilter: buildFilter applied to bounded inputs.                      *)
(***************************************************************************)
FilterKeys == {"idcampanha", "idsitio", "nome", "constructor"}
FilterValues == {Null, Str(<<>>), Str(<<"5">>), Num(0)}
ColumnMaps == {abioticoColumnMap, [nrocampanha |-> "b.nrocampanha"]}

\* An object's entries in key order: no key twice.
Entries(keys, values, maxLen) ==
    {q \in UNION {[1..k -> keys \X values] : k \in 0..maxLen} :
        \A i, j \in 1..Len(q) : i # j => q[i][1] # q[j][1]}

NoResult == [whereClause |-> "?", whereClauses |-> <<>>, params |-> <<>>,
             nextIndex |-> 0]

\* The parts of the state a specification does not use stay as they are here.
IdleFilter ==
    /\ fQuery = <<>>
    /\ fColumnMap = abioticoColumnMap
    /\ fStart = 1
    /\ fResult = NoResult

IdleDate ==
    /\ legacyParse = InvalidDate
    /\ dValue = Null
    /\ dResult = NotCalled
    /\ dAgain = NotCalled

IdleFormat ==
    /\ rRow = Null
    /\ rList = NotCalled
    /\ rDetail = NotCalled

IdleExport ==
    /\ eData = <<>>
    /\ eOptions = Undefined
    /\ ePromise = NotCalled
    /\ eLog = <<>>

IdleController ==
    /\ store = {}
    /\ pc = "idle"
    /\ req = [endpoint |-> "none"]
    /\ dataQuery = NoQuery
    /\ countQuery = NoQuery
    /\ local = NoLocal
    /\ res = NoResponse
    /\ sent = 0

InitFilter ==
    /\ fQuery \in Entries(FilterKeys, FilterValues, MaxKeys)
    /\ fColumnMap \in ColumnMaps
    /\ fStart \in 1..MaxStart
    /\ fResult = NoResult
    /\ IdleDate /\ IdleFormat /\ IdleExport /\ IdleController

CallBuildFilter ==
    /\ fResult = NoResult
    /\ fResult' = buildFilter(fQuery, fColumnMap, fStart)
    /\ UNCHANGED <<fQuery, fColumnMap, fStart, dateVars, formatVars,
                 exportVars, ctlVars>>

NextFilter == CallBuildFilter

SpecFilter == InitFilter /\ [][NextFilter]_vars

(***************************************************************************)
(* SpecDate: normalizeDate applied to bounded inputs, then to its result.  *)
(***************************************************************************)
Years == {1800, 1900, 2023, 2024, 3000, 3001}
Months == {0, 1, 2, 4, 12, 13}
Days == {0, 1, 28, 29, 30, 31, 32}

IsoText(y, m, d) ==
    PadDigits(y, 4) \o <<"-">> \o PadDigits(m, 2) \o <<"-">> \o PadDigits(d, 2)
ShortText(a, b, y, sep, w) ==
    PadDigits(a, w) \o <<sep>> \o PadDigits(b, w) \o <<sep>> \o PadDigits(y, 4)

DateTexts ==
    {IsoText(y, m, d) : y \in Years, m \in Months, d \in Days}
    \cup {ShortText(d, m, y, "/", w) :
              y \in Years, m \in Months, d \in Days, w \in 1..2}
    \cup {ShortText(m, d, y, "-", 1) : y \in Years, m \in Months, d \in Days}
    \cup {IsoText(2023, 3, 15) \o <<"T", "1", "0", ":", "0", "0", "Z">>,
          <<" ">> \o IsoText(2024, 2, 29) \o <<" ">>,
          <<>>, <<" ">>, <<"x">>, <<"2", "0", "2", "3">>,
          <<"2", "0", "2", "3", "-", "0", "3">>,
          <<"2", "0", "2", "3", "-", "1", "3">>,
          <<"2", "0", "2", "3", "/", "0", "3", "/", "1", "5">>}

DateInputs ==
    {Str(chars) : chars \in DateTexts}
    \cup {Null, Undefined, Num(0), Num(20230315), InvalidDate,
          DateOf(1800, 1, 1), DateOf(2023, 3, 15), DateOf(2024, 2, 29)}

\* What an engine may make of a text outside the language's date format.
LegacyParses == {InvalidDate, DateOf(2023, 3, 15)}

InitDate ==
    /\ legacyParse \in LegacyParses
    /\ dValue \in DateInputs
    /\ dResult = NotCalled
    /\ dAgain = NotCalled
    /\ IdleFilter /\ IdleFormat /\ IdleExport /\ IdleController

CallNormalizeDate ==
    /\ dResult = NotCalled
    /\ dResult' = normalizeDate(dValue)
    /\ UNCHANGED <<legacyParse, dValue, dAgain, filterVars, formatVars,
                 exportVars, ctlVars>>

\* normalizeDate(normalizeDate(x))
CallNormalizeDateAgain ==
    /\ dResult.kind = "return"
    /\ dAgain = NotCalled
    /\ dAgain' = normalizeDate(dResult.v)
    /\ UNCHANGED <<legacyParse, dValue, dResult, filterVars, formatVars,
                 exportVars, ctlVars>>

NextDate == CallNormalizeDate \/ CallNormalizeDateAgain

SpecDate == InitDate /\ [][NextDate]_vars

(***************************************************************************)
(* SpecFormat: the two formatters applied to bounded raw rows.             *)
(***************************************************************************)
FormatDates ==
    {Null, DateOf(2023, 3, 15), Num(20230315),
     Str(<<"1", "5", "/", "0", "3", "/", "2", "0", "2", "3">>)}
FormatDepths ==
    {Null, Num(5), Str(<<"1", ".", "2", "3", "4", ",", "5", "6">>),
     Str(<<"a", "b", "c">>)}
FormatRows ==
    {RawRow(1, date, depth, idsitio, nome, idcampanha, idreservatorio) :
        date \in FormatDates, depth \in FormatDepths,
        idsitio \in {Null, Num(0), Num(3)},
        nome \in {Str(<<"a">>)},
        idcampanha \in {Null, Num(7)},
        idreservatorio \in {Null, Num(2)}}

InitFormat ==
    /\ rRow \in FormatRows \cup {Null}
    /\ rList = NotCalled
    /\ rDetail = NotCalled
    /\ IdleFilter /\ IdleDate /\ IdleExport /\ IdleController

CallFormatList ==
    /\ rList = NotCalled
    /\ rList' = formatListOutput(rRow)
    /\ UNCHANGED <<rRow, rDetail, filterVars, dateVars,
                 exportVars, ctlVars>>

CallFormatDetail ==
    /\ rDetail = NotCalled
    /\ rDetail' = formatDetailOutput(rRow)
    /\ UNCHANGED <<rRow, rList, filterVars, dateVars,
                 exportVars, ctlVars>>

NextFormat == CallFormatList \/ CallFormatDetail

SpecFormat == InitFormat /\ [][NextFormat]_vars

(***************************************************************************)
(* SpecExport: generateExportFile applied to bounded records and options.  *)
(***************************************************************************)
ExportTexts ==
    {<<",">>, <<";">>, <<"\"">>, <<"\n">>, <<"U+20AC">>,
     <<"\"", "a", ";", ",", "\"", "\n">>}
ExportRecords ==
    {Obj(<<<<"horamedida", h>>, <<"sitio", v>>>>) :
        h \in {Null, Str(<<"a">>)},
        v \in {Undefined, Dec(1, <<"5">>)} \cup {Str(x) : x \in ExportTexts}}
ExportOptions ==
    {[format |-> "csv", includeHeaders |-> h, delimiter |-> d, encoding |-> e] :
        h \in BOOLEAN, d \in {"", ",", ";"},
        e \in {"", "utf-8", "iso-8859-1"}}
    \cup {[format |-> "xlsx", includeHeaders |-> h, delimiter |-> "",
           encoding |-> ""] : h \in BOOLEAN}
    \cup {Undefined}

InitExport ==
    /\ eData \in UNION {[1..k -> ExportRecords \cup {Null}] :
                            k \in 0..MaxRecords}
    /\ eOptions \in ExportOptions
    /\ ePromise = NotCalled
    /\ eLog = <<>>
    /\ IdleFilter /\ IdleDate /\ IdleFormat /\ IdleController

CallGenerateExportFile ==
    /\ ePromise = NotCalled
    /\ LET out == generateExportFile(eData, eOptions)
       IN /\ ePromise' = out.promise
          /\ eLog' = eLog \o out.logged
    /\ UNCHANGED <<eData, eOptions, filterVars, dateVars, formatVars,
                 ctlVars>>

NextExport == CallGenerateExportFile

SpecExport == InitExport /\ [][NextExport]_vars

(***************************************************************************)
(* Spec: one request to the abioticoColuna controller against a store.     *)
(***************************************************************************)
\* The entries of an object drawn from a set of <<key, value>> pairs, in
\* key order: no key twice.
EntriesFrom(pairs, maxLen) ==
    {q \in UNION {[1..k -> pairs] : k \in 0..maxLen} :
        \A i, j \in 1..Len(q) : i # j => q[i][1] # q[j][1]}

RequestFilters ==
    EntriesFrom({<<"idcampanha", Str(<<"5">>)>>, <<"idcampanha", Str(<<>>)>>,
                 <<"idsitio", Str(<<"1">>)>>, <<"idsitio", Str(<<"x">>)>>,
                 <<"constructor", Str(<<"5">>)>>}, MaxFilters)

\* The page and limit parameters of a listing URL.
PageParams ==
    {SelectSeq(<<<<"page", p>>, <<"limit", l>>>>, LAMBDA e : e[2] # Undefined) :
        p \in {Undefined, Str(<<"2">>), Str(<<"-", "1">>), Str(<<"x">>)},
        l \in {Undefined, Str(<<"1">>), Str(<<"2">>), Str(<<"0">>)}}

\* format, delimiter and encoding of an export body ("" stands for an
\* absent option): the values ExportFileOptions names, and one outside them
\* for each option.
ExportBodyOptions ==
    {<<"csv", "", "">>, <<"xlsx", "", "">>, <<"csv", ",", "iso-8859-1">>,
     <<"pdf", "", "">>, <<"csv", "|", "">>, <<"csv", "", "latin1">>}

ExportBodies ==
    {[format |-> o[1], range |-> r, includeHeaders |-> TRUE,
      delimiter |-> o[2], encoding |-> o[3], filters |-> q, page |-> p,
      limit |-> l] :
        o \in ExportBodyOptions, r \in {"page", "all", ""},
        q \in RequestFilters, p \in 0..2, l \in 0..2}

\* req.params.idabioticocoluna: the path segment after URL decoding.
IdSegments ==
    {<<"1">>, <<"3">>, <<"9">>, <<"-", "1">>, <<"a", "b", "c">>, <<" ">>,
     <<"1", ".", "5">>, <<"1", ".", "0">>}

Init ==
    /\ store \in {1..k : k \in 0..NumRows}
    /\ pc = "idle"
    /\ req = [endpoint |-> "none"]
    /\ dataQuery = NoQuery
    /\ countQuery = NoQuery
    /\ local = NoLocal
    /\ res = NoResponse
    /\ sent = 0
    /\ IdleFilter /\ IdleDate /\ IdleFormat /\ IdleExport

otherVars == <<filterVars, dateVars, formatVars, exportVars>>

\* getAll up to the await: both statements are handed to the pool.
GetAll ==
    /\ pc = "idle"
    /\ \E filters \in RequestFilters, params \in PageParams :
         LET query == filters \o params
             page == parseIntOr(Get(Obj(query), "page"), 1)
             limit == parseIntOr(Get(Obj(query), "limit"), PAGE_SIZE)
             offset == (page - 1) * limit
             built == buildAbioticoQuery(query)
         IN /\ req' = [endpoint |-> "getAll", query |-> query]
            /\ local' = [page |-> page, limit |-> limit, offset |-> offset,
                         records |-> <<>>]
            /\ dataQuery' =
                   Pending(WithLimitOffset(built.mainQuery, built.paramIndex),
                           built.values \o <<Num(limit), Num(offset)>>)
            /\ countQuery' = Pending(built.countText, built.values)
    /\ pc' = "getAll"
    /\ UNCHANGED <<store, res, sent, otherVars>>

\* The store answers the data statement.
DataQueryFulfilled ==
    /\ dataQuery.state = "pending"
    /\ \E out \in QueryOutcomes(store, dataQuery.query, dataQuery.values) :
          /\ out.kind = "return"
          /\ dataQuery' = [dataQuery EXCEPT !.state = "fulfilled",
                                            !.result = out]
    /\ UNCHANGED <<store, pc, req, countQuery, local, res, sent, otherVars>>

\* The store refuses the data statement, or cannot be reached.
DataQueryRejected ==
    /\ dataQuery.state = "pending"
    /\ \E out \in {Throw("error: connection terminated")} \cup
                    {o \in QueryOutcomes(store, dataQuery.query, dataQuery.values) :
                        o.kind = "throw"} :
          /\ dataQuery' = [dataQuery EXCEPT !.state = "rejected",
                                            !.result = out]
    /\ UNCHANGED <<store, pc, req, countQuery, local, res, sent, otherVars>>

CountQueryFulfilled ==
    /\ countQuery.state = "pending"
    /\ \E out \in QueryOutcomes(store, countQuery.query, countQuery.values) :
          /\ out.kind = "return"
          /\ countQuery' = [countQuery EXCEPT !.state = "fulfilled",
                                              !.result = out]
    /\ UNCHANGED <<store, pc, req, dataQuery, local, res, sent, otherVars>>

CountQueryRejected ==
    /\ countQuery.state = "pending"
    /\ \E out \in {Throw("error: connection terminated")} \cup
                    {o \in QueryOutcomes(store, countQuery.query, countQuery.values) :
                        o.kind = "throw"} :
          /\ countQuery' = [countQuery EXCEPT !.state = "rejected",
                                              !.result = out]
    /\ UNCHANGED <<store, pc, req, dataQuery, local, res, sent, otherVars>>

\* getAll after Promise.all fulfilled: the 200, or the 500 of the catch
\* block when formatting a row throws.
GetAllRespond ==
    /\ pc = "getAll"
    /\ dataQuery.state = "fulfilled"
    /\ countQuery.state = "fulfilled"
    /\ LET total == ToNumber(countQuery.result.v[1].count.s)
           data == FormatAll(dataQuery.result.v)
       IN res' = IF data.kind = "throw"
                 THEN ErrorResponse("Erro ao realizar operação.")
                 ELSE [status |-> 200, success |-> TRUE,
                       page |-> local.page, limit |-> local.limit,
                       total |-> total,
                       totalPages |-> CeilDiv(total, local.limit),
                       data |-> data.v]
    /\ sent' = sent + 1
    /\ pc' = "done"
    /\ UNCHANGED <<store, req, dataQuery, countQuery, local, otherVars>>

\* getAll after Promise.all rejected: the catch block.
GetAllError ==
    /\ pc = "getAll"
    /\ dataQuery.state = "rejected" \/ countQuery.state = "rejected"
    /\ res' = ErrorResponse("Erro ao realizar operação.")
    /\ sent' = sent + 1
    /\ pc' = "done"
    /\ UNCHANGED <<store, req, dataQuery, countQuery, local, otherVars>>

\* exportData up to the await of the data statement.
ExportData ==
    /\ pc = "idle"
    /\ \E body \in ExportBodies :
         LET built == buildAbioticoQuery(body.filters)
             paging == ExportPage(body.page, body.limit)
         IN /\ req' = [endpoint |-> "exportData", body |-> body]
            /\ IF body.range = "page"
               THEN /\ dataQuery' =
                          Pending(WithLimitOffset(built.mainQuery,
                                                  built.paramIndex),
                                  built.values \o <<Num(paging.limit),
                                                    Num(paging.offset)>>)
                    /\ local' = [page |-> IF body.page = 0 THEN 1
                                          ELSE body.page,
                                 limit |-> paging.limit,
                                 offset |-> paging.offset,
                                 records |-> <<>>]
               ELSE /\ dataQuery' = Pending(built.mainQuery, built.values)
                    /\ local' = NoLocal
    /\ pc' = "exportData"
    /\ UNCHANGED <<store, countQuery, res, sent, otherVars>>

\* exportData after the rows arrived: format, generate the file, send it;
\* the 500 of the catch block when formatting or generation fails.
ExportRespond ==
    /\ pc = "exportData"
    /\ dataQuery.state = "fulfilled"
    /\ \E formattedData \in {FormatAll(dataQuery.result.v)} :
       \E file \in {IF formattedData.kind = "throw" THEN formattedData
                    ELSE generateExportFile(formattedData.v,
                             [format |-> req.body.format,
                              includeHeaders |-> req.body.includeHeaders,
                              delimiter |-> req.body.delimiter,
                              encoding |-> req.body.encoding]).promise} :
          IF file.kind = "throw"
          THEN /\ res' = ErrorResponse("Erro ao gerar exportação.")
               /\ UNCHANGED local
          ELSE /\ res' = [status |-> 200,
                          contentType |->
                              IF req.body.format = "xlsx"
                              THEN "application/vnd.openxmlformats-officedocument.spreadsheetml.sheet"
                              ELSE "text/csv; charset="
                                       \o OrDefault(req.body.encoding,
                                                    "utf-8"),
                          fileName |-> "export_abiotico_coluna_<date>."
                                           \o req.body.format,
                          file |-> file.v]
               /\ local' = [local EXCEPT !.records = formattedData.v]
    /\ sent' = sent + 1
    /\ pc' = "done"
    /\ UNCHANGED <<store, req, dataQuery, countQuery, otherVars>>

\* exportData after the data statement failed: the catch block.
ExportError ==
    /\ pc = "exportData"
    /\ dataQuery.state = "rejected"
    /\ res' = ErrorResponse("Erro ao gerar exportação.")
    /\ sent' = sent + 1
    /\ pc' = "done"
    /\ UNCHANGED <<store, req, dataQuery, countQuery, local, otherVars>>

\* getById up to the await: the 400 for an identifier Number() turns into
\* NaN, the detail statement handed to the pool otherwise.
GetById ==
    /\ pc = "idle"
    /\ \E segment \in IdSegments :
         LET idAbioticoColuna == Number(segment)
         IN /\ req' = [endpoint |-> "getById", idabioticocoluna |-> segment]
            /\ IF idAbioticoColuna = Null
               THEN /\ res' = InvalidIdResponse(segment)
                    /\ sent' = sent + 1
                    /\ pc' = "done"
                    /\ UNCHANGED dataQuery
               ELSE /\ dataQuery' = Pending(DetailQuery, <<idAbioticoColuna>>)
                    /\ pc' = "getById"
                    /\ UNCHANGED <<res, sent>>
    /\ UNCHANGED <<store, countQuery, local, otherVars>>

\* getById after the rows arrived: the 404, the 200 with the nested record,
\* or the 500 of the catch block when formatting the row throws.
GetByIdRespond ==
    /\ pc = "getById"
    /\ dataQuery.state = "fulfilled"
    /\ \E rows \in {dataQuery.result.v} :
          IF Len(rows) = 0 THEN res' = NotFoundResponse
          ELSE \E data \in {formatDetailOutput(rows[1])} :
                  res' = IF data.kind = "throw"
                         THEN ErrorResponse("Erro ao realizar operação.")
                         ELSE [status |-> 200, success |-> TRUE,
                               data |-> data.v]
    /\ sent' = sent + 1
    /\ pc' = "done"
    /\ UNCHANGED <<store, req, dataQuery, countQuery, local, otherVars>>

\* getById after the detail statement failed: the catch block.
GetByIdError ==
    /\ pc = "getById"
    /\ dataQuery.state = "rejected"
    /\ res' = ErrorResponse("Erro ao realizar operação.")
    /\ sent' = sent + 1
    /\ pc' = "done"
    /\ UNCHANGED <<store, req, dataQuery, countQuery, local, otherVars>>

Next ==
    \/ GetAll
    \/ GetById
    \/ GetByIdRespond
    \/ GetByIdError
    \/ DataQueryFulfilled
    \/ DataQueryRejected
    \/ CountQueryFulfilled
    \/ CountQueryRejected
    \/ GetAllRespond
    \/ GetAllError
    \/ ExportData
    \/ ExportRespond
    \/ ExportError

Spec == Init /\ [][Next]_vars

Range(f) == {f[x] : x \in DOMAIN f}

\* A text YYYY-MM-DD that names a day of the calendar.
IsCanonicalDay(chars) ==
    /\ Len(chars) = 10
    /\ AllDigits(SubSeq(chars, 1, 4)) /\ chars[5] = "-"
    /\ AllDigits(SubSeq(chars, 6, 7)) /\ chars[8] = "-"
    /\ AllDigits(SubSeq(chars, 9, 10))
    /\ ToNumber(SubSeq(chars, 6, 7)) \in 1..12
    /\ ToNumber(SubSeq(chars, 9, 10)) >= 1
    /\ ToNumber(SubSeq(chars, 9, 10))
           <= DaysInMonth(ToNumber(SubSeq(chars, 1, 4)),
                          ToNumber(SubSeq(chars, 6, 7)))

\* C8: normalizeDate returns a canonical YYYY-MM-DD day unchanged, so that
\* normalizing a result of normalizeDate again gives that same result.
C8_IdempotentOnCanonical ==
    /\ (dResult # NotCalled /\ dValue.t = "string" /\ IsCanonicalDay(dValue.s))
           => dResult = Return(dValue)
    /\ dAgain # NotCalled => dAgain = dResult

\* The years, months and days the three patterns take from a text of the
\* input set that matches one of them.
OverflowsCalendar(chars) ==
    LET t == trim(chars)
        iso == matchISO(t)
        dmy == matchShort(t, "/")
        mdy == matchShort(t, "-")
        ymd == IF iso # <<>> THEN <<iso[1], iso[2], iso[3]>>
               ELSE IF dmy # <<>> THEN <<dmy[3], dmy[2], dmy[1]>>
               ELSE IF mdy # <<>> THEN <<mdy[3], mdy[1], mdy[2]>>
               ELSE <<>>
    IN /\ ymd # <<>>
       /\ \/ ToNumber(ymd[2]) \notin 1..12
          \/ ToNumber(ymd[3]) < 1
          \/ ToNumber(ymd[3])
                > DaysInMonth(ToNumber(ymd[1]), ToNumber(ymd[2]))

\* C9: normalizeDate never throws: whatever it is handed (null, a Date, any
\* text, a value of another type such as a number) it returns null or a
\* canonical YYYY-MM-DD text, and null when the matched day overflows the
\* calendar.
C9_NeverThrows ==
    dResult # NotCalled =>
        /\ dResult.kind = "return"
        /\ \/ dResult.v = Null
           \/ dResult.v.t = "string" /\ IsCanonicalDay(dResult.v.s)
        /\ (dValue.t = "string" /\ OverflowsCalendar(dValue.s))
               => dResult.v = Null

\* The values of the entries whose key is an own key of the column map and
\* whose value is neither null nor the empty string, in key order.
AllowListedValues(query, columnMap) ==
    LET keep(e) == /\ e[1] \in DOMAIN columnMap
                   /\ ~IsNullish(e[2])
                   /\ ~IsEmptyString(e[2])
        kept == SelectSeq(query, keep)
    IN [i \in 1..Len(kept) |-> kept[i][2]]

\* C1: every predicate fragment names a column that is a value of the
\* allow-list column map, and the bound values are exactly the values of the
\* allow-listed keys: no value of a key outside the allow-list is bound.
C1_OnlyAllowListedColumns ==
    fResult # NoResult =>
        /\ \A i \in 1..Len(fResult.whereClauses) :
               fResult.whereClauses[i].column \in Range(fColumnMap)
        /\ fResult.params = AllowListedValues(fQuery, fColumnMap)

\* C2: as many fragments as bound values (n); the fragments use the
\* placeholders s, s+1, ..., s+n-1 in order, the i-th one bound to the i-th
\* value; nextIndex = s+n; and with n = 0 the predicate is the empty string,
\* the bound values are empty and nextIndex = s.
C2_ContiguousPlaceholders ==
    fResult # NoResult =>
        LET n == Len(fResult.params)
            honored == SelectSeq(fQuery,
                           LAMBDA e : Honored(fColumnMap, e[1], e[2]))
        IN /\ Len(fResult.whereClauses) = n
           /\ Len(honored) = n
           /\ \A i \in 1..n :
                  /\ fResult.whereClauses[i].index = fStart + i - 1
                  /\ fResult.whereClauses[i].column
                         = GetProperty(fColumnMap, honored[i][1])
                  /\ fResult.params[i] = honored[i][2]
           /\ fResult.nextIndex = fStart + n
           /\ (n = 0) = (fResult.whereClause = "")

\* A call that honored two filters starting from placeholder 2.
C2_Witness ==
    /\ fResult # NoResult
    /\ fStart = 2
    /\ Len(fResult.params) = 2
    /\ fResult.nextIndex = 4

\* The relationship key is in the output's key set exactly when the row's
\* foreign key is non-null.
KeyFollowsForeignKey(out, key, fk) == HasKey(out, key) = (fk # Null)

\* C10: the mapping formatListOutput and formatDetailOutput return has the
\* relationship key (sitio, campanha, and reservatorio inside campanha) in
\* its key set when the row's foreign key is non-null, and does not have the
\* key at all when the foreign key is null.
C10_RelationshipKeyOmitted ==
    /\ (rList.kind = "return" /\ rList.v # Null) =>
           /\ KeyFollowsForeignKey(rList.v, "sitio", rRow.idsitio)
           /\ KeyFollowsForeignKey(rList.v, "campanha", rRow.idcampanha)
    /\ (rDetail.kind = "return" /\ rDetail.v # Null) =>
           /\ KeyFollowsForeignKey(rDetail.v, "sitio", rRow.idsitio)
           /\ KeyFollowsForeignKey(rDetail.v, "campanha", rRow.idcampanha)
           /\ HasKey(rDetail.v, "campanha")
                  /\ Get(rDetail.v, "campanha") # Undefined
                  => KeyFollowsForeignKey(Get(rDetail.v, "campanha"),
                                          "reservatorio", rRow.idreservatorio)

\* An error was raised inside the CSV or spreadsheet generation: the first
\* record, whose keys give the columns, or a later record is null.
GenerationRaises ==
    /\ eOptions # Undefined
    /\ Len(eData) > 0
    /\ \E i \in 1..Len(eData) : eData[i] = Null

\* C3: when an error is raised inside the CSV or spreadsheet generation,
\* the promise of generateExportFile rejects with the generic export-failure
\* error, after the error has been logged; the original error's message
\* does not reach the caller.
C3_GenericExportFailure ==
    (ePromise # NotCalled /\ GenerationRaises) =>
        /\ ePromise = Throw(GenericExportError)
        /\ eLog # <<>>

(***************************************************************************)
(* A quoted-CSV reader: records end at a line break outside quotes, fields *)
(* at a delimiter outside quotes; a field that starts with a quote runs to *)
(* its closing quote, a doubled quote inside standing for one quote.       *)
(***************************************************************************)
RECURSIVE ReadCsv(_, _, _, _, _, _)
ReadCsv(chars, delimiter, i, mode, field, acc) ==
    LET rows == acc.rows
        row == acc.row
        endField == [rows |-> rows, row |-> Append(row, field)]
        endRecord == [rows |-> Append(rows, Append(row, field)), row |-> <<>>]
    IN IF i > Len(chars) THEN endRecord.rows
       ELSE LET c == chars[i]
            IN CASE mode = "quoted" /\ c = "\"" /\ i < Len(chars)
                        /\ chars[i + 1] = "\"" ->
                        ReadCsv(chars, delimiter, i + 2, "quoted",
                                Append(field, "\""), acc)
                 [] mode = "quoted" /\ c = "\""
                        /\ ~(i < Len(chars) /\ chars[i + 1] = "\"") ->
                        ReadCsv(chars, delimiter, i + 1, "plain", field, acc)
                 [] mode = "quoted" /\ c # "\"" ->
                        ReadCsv(chars, delimiter, i + 1, "quoted",
                                Append(field, c), acc)
                 [] mode = "start" /\ c = "\"" ->
                        ReadCsv(chars, delimiter, i + 1, "quoted", field, acc)
                 [] mode # "quoted" /\ c = delimiter ->
                        ReadCsv(chars, delimiter, i + 1, "start", <<>>, endField)
                 [] mode # "quoted" /\ c = "\n" ->
                        ReadCsv(chars, delimiter, i + 1, "start", <<>>, endRecord)
                 [] OTHER ->
                        ReadCsv(chars, delimiter, i + 1, "plain",
                                Append(field, c), acc)

ParseCsv(chars, delimiter) ==
    ReadCsv(chars, delimiter, 1, "start", <<>>, [rows |-> <<>>, row |-> <<>>])

\* The case of the round trip: a CSV with headers of one or more records.
CsvRoundTripCase ==
    /\ ePromise.kind = "return"
    /\ eOptions # Undefined
    /\ eOptions.format = "csv"
    /\ eOptions.includeHeaders
    /\ Len(eData) > 0

\* The records read back from the generated CSV, by header row: a sequence
\* of objects whose values are texts.
ReadBack ==
    LET rows == ParseCsv(ePromise.v.chars, OrDefault(eOptions.delimiter, ";"))
        header == rows[1]
    IN [i \in 1..(Len(rows) - 1) |->
           Obj([j \in 1..Len(rows[i + 1]) |->
                   <<IF j <= Len(header) /\ Len(header[j]) = 1
                     THEN header[j][1] ELSE "?",
                     Str(rows[i + 1][j])>>])]

\* C4 as stated: the records read back equal the original records, key by
\* key and value by value.
C4_RoundTripExact ==
    CsvRoundTripCase => ReadBack = eData

\* The text a value is written as: null and undefined as the empty text.
Written(value) == IF IsNullish(value) THEN <<>> ELSE String(value)

\* Every character of the records can be written in the requested encoding.
Encodable ==
    \/ eOptions.encoding # "iso-8859-1"
    \/ \A i \in 1..Len(eData) : \A j \in 1..Len(eData[i].o) :
           \A k \in 1..Len(Written(eData[i].o[j][2])) :
               Latin1(Written(eData[i].o[j][2])[k])

\* C4 amended: the CSV generated with headers from N >= 1 flattened records
\* reads back as N records with the same keys in the same order, each value
\* the text the original value is written as (null and undefined as the
\* empty text), whenever the encoding has every character of the values;
\* values holding the delimiter, a quote or a line break come back unchanged.
C4_RoundTripAsText ==
    (CsvRoundTripCase /\ Encodable) =>
        /\ Len(ReadBack) = Len(eData)
        /\ \A i \in 1..Len(eData) :
               /\ Keys(ReadBack[i]) = Keys(eData[i])
               /\ \A j \in 1..Len(eData[i].o) :
                      ReadBack[i].o[j][2] = Str(Written(eData[i].o[j][2]))

\* Two records, the second holding the delimiter, quotes and a line break in
\* one value, written with ';' and read back.
C4_Witness ==
    /\ CsvRoundTripCase
    /\ Encodable
    /\ Len(eData) = 2
    /\ OrDefault(eOptions.delimiter, ";") = ";"
    /\ Get(eData[2], "sitio") = Str(<<"\"", "a", ";", ",", "\"", "\n">>)
    /\ Get(ReadBack[2], "sitio") = Str(<<"\"", "a", ";", ",", "\"", "\n">>)

\* The stored rows a request asks for: its filters are the allow-listed keys
\* of the request that carry a value; a row matches when each filtered
\* column holds the requested number.
RequestedColumn(row, key) ==
    IF key = "idcampanha" THEN row.idcampanha ELSE row.idsitio
RequestedRows(filters) ==
    {i \in store :
        \A k \in 1..Len(filters) :
            (filters[k][1] \in {"idcampanha", "idsitio"}
                /\ filters[k][2] # Str(<<>>))
            => /\ RequestedColumn(StoreRow(i), filters[k][1]) # Null
               /\ RequestedColumn(StoreRow(i), filters[k][1]).n
                      = ToNumber(filters[k][2].s)}
RecordId(record) == Get(record, "idabioticocoluna").n

\* C5: the 200 response of a listing request has total equal to the number
\* of stored rows matching all the filters, totalPages equal to
\* ceil(total / limit), at most limit records in data, and every record
\* comes from a stored row whose filtered columns equal the requested values.
C5_ListingTotals ==
    (req.endpoint = "getAll" /\ res.status = 200) =>
        LET rows == RequestedRows(req.query)
        IN /\ res.total = Cardinality(rows)
           /\ res.totalPages * res.limit >= res.total
           /\ (res.totalPages - 1) * res.limit < res.total
           /\ Len(res.data) <= res.limit
           /\ \A k \in 1..Len(res.data) :
                  /\ RecordId(res.data[k]) \in rows
                  /\ res.data[k]
                         = formatListOutput(StoreRow(RecordId(res.data[k]))).v

\* Three rows of campaign 5, listed two to a page.
C5_Witness ==
    /\ req.endpoint = "getAll"
    /\ res.status = 200
    /\ \E k \in 1..Len(req.query) :
           req.query[k] = <<"idcampanha", Str(<<"5">>)>>
    /\ res.limit = 2
    /\ res.total = 3
    /\ res.totalPages = 2
    /\ Len(res.data) = 2

\* The filtered rows in an order the store may return them in: later
\* measurement dates first.
IsDateDescending(ids, rows) ==
    /\ Range(ids) = rows
    /\ Len(ids) = Cardinality(rows)
    /\ \A i, j \in 1..Len(ids) :
           i < j => StoreRow(ids[i]).datamedida.n
                        >= StoreRow(ids[j]).datamedida.n
Orderings(rows) ==
    {ids \in [1..Cardinality(rows) -> rows] : IsDateDescending(ids, rows)}
ExportedIds == [k \in 1..Len(local.records) |-> RecordId(local.records[k])]

\* C6: exportData adds LIMIT/OFFSET to the data query exactly when range is
\* 'page'; with range 'page', page p and limit l the exported records are
\* rows (p-1)*l+1 through p*l of the filtered rows ordered by measurement
\* date descending, and otherwise the query has no limit or offset and the
\* export contains every filtered row.
C6_ExportRange ==
    req.endpoint = "exportData" =>
        LET body == req.body
            p == IF body.page = 0 THEN 1 ELSE body.page
            l == IF body.limit = 0 THEN PAGE_SIZE ELSE body.limit
            rows == RequestedRows(body.filters)
        IN /\ (dataQuery.query.limitIndex # 0) <=> (body.range = "page")
           /\ (dataQuery.query.offsetIndex # 0) <=> (body.range = "page")
           /\ body.range = "page" =>
                  /\ dataQuery.values[dataQuery.query.limitIndex] = Num(l)
                  /\ dataQuery.values[dataQuery.query.offsetIndex]
                         = Num((p - 1) * l)
           /\ (res.status = 200 /\ body.range = "page") =>
                  \E ids \in Orderings(rows) :
                      /\ Len(ExportedIds)
                             = IF Len(ids) >= p * l THEN l
                               ELSE IF Len(ids) > (p - 1) * l
                               THEN Len(ids) - (p - 1) * l
                               ELSE 0
                      /\ \A k \in 1..Len(ExportedIds) :
                             ExportedIds[k] = ids[(p - 1) * l + k]
           /\ (res.status = 200 /\ body.range # "page") =>
                  ExportedIds \in Orderings(rows)

\* The second page of two rows out of four.
C6_Witness ==
    /\ req.endpoint = "exportData"
    /\ req.body.range = "page"
    /\ req.body.page = 2
    /\ req.body.limit = 2
    /\ req.body.filters = <<>>
    /\ res.status = 200
    /\ Len(local.records) = 2
    /\ Cardinality(store) = 4

\* C7: getAll issues the data query and the count query together; the 200
\* is sent only when both have fulfilled; at most one response is sent; and
\* when either query failed the response is the 500 error body, with no
\* rows and no count in it.
C7_BothQueriesThenOneResponse ==
    req.endpoint = "getAll" =>
        /\ dataQuery.state # "none" /\ countQuery.state # "none"
        /\ sent <= 1
        /\ (sent = 1) <=> (res.status # 0)
        /\ res.status = 200 =>
               dataQuery.state = "fulfilled" /\ countQuery.state = "fulfilled"
        /\ (sent = 1 /\ (dataQuery.state = "rejected"
                            \/ countQuery.state = "rejected")) =>
               res = [status |-> 500, success |-> FALSE,
                      error |-> "Erro ao realizar operação."]

\* The rows arrived, the count failed, the error went out.
C7_Witness ==
    /\ req.endpoint = "getAll"
    /\ dataQuery.state = "fulfilled"
    /\ Len(dataQuery.result.v) > 0
    /\ countQuery.state = "rejected"
    /\ sent = 1
    /\ res.status = 500

\* Export options outside the values ExportFileOptions allows (an absent
\* delimiter or encoding is defaulted, not malformed).
MalformedOptions(body) ==
    \/ body.format \notin {"csv", "xlsx"}
    \/ body.delimiter \notin {"", ",", ";"}
    \/ body.encoding \notin {"", "utf-8", "iso-8859-1"}

\* C11: an export request with malformed options (format not csv or xlsx,
\* delimiter not ',' or ';', encoding not utf-8 or iso-8859-1) is answered
\* with a 4xx validation error: no file is generated, and neither a 200 nor
\* a 500 is sent for it.
C11_MalformedOptionsRejected ==
    (req.endpoint = "exportData" /\ MalformedOptions(req.body) /\ sent > 0)
        => /\ res.status \in 400..499
           /\ "file" \notin DOMAIN res

\* A path segment that is an identifier of the table: a numeral of digits.
ValidIdentifier(segment) == segment # <<>> /\ AllDigits(segment)

\* C12: a detail request gets one response: 400 naming the input, with no
\* query issued, when the path segment is no valid numeric identifier; with
\* a valid identifier, 404 when no row matches, 200 with the nested record
\* when one does, and 500 with the generic message when the query fails.
C12_DetailResponses ==
    req.endpoint = "getById" =>
        /\ sent <= 1
        /\ (pc = "done") <=> (sent = 1)
        /\ ~ValidIdentifier(req.idabioticocoluna) =>
               /\ dataQuery.state = "none"
               /\ sent = 1 =>
                      /\ res.status = 400
                      /\ res = InvalidIdResponse(req.idabioticocoluna)
        /\ (ValidIdentifier(req.idabioticocoluna) /\ sent = 1) =>
               LET id == ToNumber(req.idabioticocoluna)
               IN CASE dataQuery.state = "rejected" ->
                           /\ res.status = 500
                           /\ res.error = "Erro ao realizar operação."
                    [] dataQuery.state = "fulfilled" /\ id \notin store ->
                           res.status = 404
                    [] dataQuery.state = "fulfilled" /\ id \in store ->
                           /\ res.status = 200
                           /\ res.data = formatDetailOutput(StoreRow(id)).v
                           /\ RecordId(res.data) = id
                    [] OTHER -> FALSE

\* The values of the filters of a listing request that buildFilter honors,
\* in request order.
HonoredValues(query) ==
    LET honored == SelectSeq(query,
                       LAMBDA e : Honored(abioticoColumnMap, e[1], e[2]))
    IN [i \in 1..Len(honored) |-> honored[i][2]]

\* C13: with k honored filters, the listing data query has exactly the
\* placeholders $1..$(k+2), bound in order to the filter values, the limit
\* and the offset, LIMIT being $(k+1) and OFFSET $(k+2); the count query has
\* the same WHERE predicate with the placeholders $1..$k bound to the same
\* k values, and no limit or offset.
C13_ListingPlaceholders ==
    req.endpoint = "getAll" =>
        LET filterValues == HonoredValues(req.query)
            k == Len(filterValues)
            data == dataQuery.query
            count == countQuery.query
            predicate == buildFilter(req.query, abioticoColumnMap, 1).whereClause
        IN /\ Len(data.where) = k
           /\ \A i \in 1..k : data.where[i].index = i
           /\ data.limitIndex = k + 1
           /\ data.offsetIndex = k + 2
           /\ dataQuery.values
                  = filterValues \o <<Num(local.limit), Num(local.offset)>>
           /\ data.text = BaseQuery \o " " \o predicate
                  \o " ORDER BY a.datamedida DESC, a.horamedida DESC"
                  \o " LIMIT $" \o ToString(k + 1)
                  \o " OFFSET $" \o ToString(k + 2)
           /\ count.count /\ ~data.count
           /\ count.where = data.where
           /\ count.text = CountQuery \o " " \o predicate
           /\ countQuery.values = filterValues
           /\ count.limitIndex = 0 /\ count.offsetIndex = 0

\* Two honored filters next to page and limit: placeholders $1..$4.
C13_Witness ==
    /\ req.endpoint = "getAll"
    /\ Len(req.query) = 4
    /\ Len(dataQuery.query.where) = 2
    /\ dataQuery.query.limitIndex = 3
    /\ dataQuery.query.offsetIndex = 4
    /\ dataQuery.values = <<Str(<<"5">>), Str(<<"1">>), Num(2), Num(2)>>
    /\ countQuery.values = <<Str(<<"5">>), Str(<<"1">>)>>
====
